---- MODULE Spec2Model ----
(***************************************************************************)
(* A model of music-archiver.ts: the history parser, the deduplicator, the *)
(* output-directory scanner, the catalog matcher and the fetch             *)
(* orchestrator.                                                           *)
(*                                                                         *)
(* Strings are sequences of one-character strings, so that the filename    *)
(* builder, the scanner's regular expressions, toLowerCase/trim and the    *)
(* deduplication key are computed character by character.                  *)
(***************************************************************************)
EXTENDS Integers, Sequences, FiniteSets, TLC

VARIABLES fn, ps, dd, mt,
          allTracks, outputDir, run, pc, uniqueNewTracks, itemIndex, existingYtIds,
          stats, last,
          firstRunSuccessful, fetchedYtIds

runVars ==
  <<allTracks, outputDir, run, pc, uniqueNewTracks, itemIndex, existingYtIds,
    stats, last, firstRunSuccessful, fetchedYtIds>>

vars == <<fn, ps, dd, mt, runVars>>

\* What each component's actions leave alone.
notFn == <<ps, dd, mt, runVars>>
notPs == <<fn, dd, mt, runVars>>
notDd == <<fn, ps, mt, runVars>>
notMt == <<fn, ps, dd, runVars>>
notRun == <<fn, ps, dd, mt>>

\* ------------------------------------------------------------------------
\* Values
\* ------------------------------------------------------------------------

\* JavaScript null (a nullable string field) and undefined (an optional
\* field): sentinels whose one element is not a character.
Null == <<"NULL">>
Undef == <<"UNDEFINED">>

\* undefined for an optional object and for an optional array.
UndefObject == [undefined |-> TRUE]
UndefArray == <<UndefObject>>

\* The state of a component that a specification does not exercise.
Off == [pc |-> "off"]

RunOff ==
  /\ allTracks = <<>> /\ outputDir = {} /\ run = "off" /\ pc = "off"
  /\ uniqueNewTracks = <<>> /\ itemIndex = 0 /\ existingYtIds = {} /\ stats = Off /\ last = Off
  /\ firstRunSuccessful = {} /\ fetchedYtIds = {}

\* ------------------------------------------------------------------------
\* String helpers
\* ------------------------------------------------------------------------

Min(S) == CHOOSE x \in S : \A y \in S : x <= y

\* String.prototype.slice(0, n)
Slice0(s, n) == IF Len(s) <= n THEN s ELSE SubSeq(s, 1, n)

\* String.prototype.endsWith
EndsWith(s, suffix) ==
  /\ Len(suffix) <= Len(s)
  /\ SubSeq(s, Len(s) - Len(suffix) + 1, Len(s)) = suffix

\* The characters \s matches, among those the model's strings use.
IsSpace(c) == c \in {" "}

\* String.prototype.trim
RECURSIVE TrimLeft(_)
TrimLeft(s) ==
  IF s # <<>> /\ IsSpace(Head(s)) THEN TrimLeft(Tail(s)) ELSE s

RECURSIVE TrimRight(_)
TrimRight(s) ==
  IF s # <<>> /\ IsSpace(s[Len(s)]) THEN TrimRight(SubSeq(s, 1, Len(s) - 1)) ELSE s

Trim(s) == TrimRight(TrimLeft(s))

\* ------------------------------------------------------------------------
\* Filename construction (generateFilename, sanitizeFilename, extractTrackId)
\* ------------------------------------------------------------------------

\* .slice(0, 200) of sanitizeFilename
MaxFilenameLen == 200

\* The character class [<>:"/\|?*] of sanitizeFilename
IllegalChars == {"<", ">", ":", "\"", "/", "\\", "|", "?", "*"}

\* .replace(/\s+/g, ' '): every run of whitespace becomes one space
RECURSIVE CollapseSpaces(_)
CollapseSpaces(s) ==
  IF s = <<>> THEN <<>>
  ELSE IF IsSpace(Head(s))
       THEN <<" ">> \o CollapseSpaces(TrimLeft(s))
       ELSE <<Head(s)>> \o CollapseSpaces(Tail(s))

sanitizeFilename(filename) ==
  Slice0(Trim(CollapseSpaces(SelectSeq(filename, LAMBDA c : c \notin IllegalChars))),
         MaxFilenameLen)

SepTitleArtist == <<"_", "_", "_">>
SepYtId == <<"_", "_", "y", "t", "I", "d", "_", "_">>
SepTrackId == <<"_", "_", "_", "t", "r", "a", "c", "k", "I", "d", "_">>

generateFilename(trackName, artistName, ytId, trackId) ==
  sanitizeFilename(trackName) \o SepTitleArtist \o sanitizeFilename(artistName)
    \o SepYtId \o ytId \o SepTrackId \o trackId

\* spotifyUri.split(':').pop(): the text after the last colon (the whole
\* string when it has none)
LastSegment(uri) ==
  LET colons == {k \in 1..Len(uri) : uri[k] = ":"}
  IN  IF colons = {} THEN uri
      ELSE SubSeq(uri, (CHOOSE k \in colons : \A j \in colons : j <= k) + 1, Len(uri))

Unknown == <<"u", "n", "k", "n", "o", "w", "n">>

\* spotifyUri.split(':').pop() || 'unknown'
extractTrackId(spotifyUri) ==
  IF LastSegment(spotifyUri) = <<>> THEN Unknown ELSE LastSegment(spotifyUri)

\* ------------------------------------------------------------------------
\* Existing-output scanner (scanOutputDirectory and its two patterns)
\* ------------------------------------------------------------------------

\* The end of the longest run of non-'.' characters starting at s
\* (s - 1 when name[s] is a '.' or s is past the end): what the greedy
\* [^.]+ consumes.
RunEnd(name, s) ==
  LET dots == {k \in s..Len(name) : name[k] = "."}
  IN  IF dots = {} THEN Len(name) ELSE Min(dots) - 1

\* Whether /<lit>([^.]+)\./ matches with the literal starting at i. The
\* class excludes '.', so backtracking the greedy run never helps: the run
\* must be non-empty and be followed by a '.'.
MatchesAt(lit, name, i) ==
  /\ i + Len(lit) - 1 <= Len(name)
  /\ SubSeq(name, i, i + Len(lit) - 1) = lit
  /\ LET s == i + Len(lit)
         e == RunEnd(name, s)
     IN  e >= s /\ e + 1 <= Len(name)

\* name.match(/<lit>([^.]+)\./): group 1 of the leftmost match, or NoMatch
NoMatch == <<"NOMATCH">>

RegexGroup(lit, name) ==
  LET starts == {i \in 1..Len(name) : MatchesAt(lit, name, i)}
  IN  IF starts = {} THEN NoMatch
      ELSE LET s == Min(starts) + Len(lit)
           IN  SubSeq(name, s, RunEnd(name, s))

\* scanOutputDirectory(pattern) over the files of a directory
scanOutputDirectory(lit, dir, audioFormat) ==
  {RegexGroup(lit, name) :
     name \in {f \in dir : /\ EndsWith(f, <<".">> \o audioFormat)
                           /\ RegexGroup(lit, f) # NoMatch}}

getExistingTrackIds(dir, audioFormat) == scanOutputDirectory(SepTrackId, dir, audioFormat)

getExistingYtIds(dir, audioFormat) == scanOutputDirectory(SepYtId, dir, audioFormat)

\* config.audioFormat (the default)
AudioFormat == <<"o", "p", "u", "s">>

\* ------------------------------------------------------------------------
\* Specification SpecFilename: a filename is built for one download, the
\* file appears in the output directory, and the scanner reads it back.
\* ------------------------------------------------------------------------

FnTitles == {<<"a">>, <<"M", "r", ".", " ", " ", "b">>, <<"a", ":", "?">>}
FnArtists == {<<"b">>, <<" ", "D", "r", ".", "b">>}
FnYtIds == {<<"y", "1">>, <<"y", "_", "2">>, <<"-", "y">>}
FnSpotifyUris ==
  {<<"s", ":", "t", ":", "A">>, <<"s", ":", "t", ":", "B", "7">>, <<"C">>}

FnInit ==
  /\ ps = Off /\ dd = Off /\ mt = Off /\ RunOff
  /\ fn \in [pc : {"input"},
             trackName : FnTitles, artistName : FnArtists,
             ytId : FnYtIds, spotifyUri : FnSpotifyUris,
             dir : {{}}, ytIds : {{}}, trackIds : {{}},
             ytScanned : {FALSE}, trackScanned : {FALSE}]

\* downloadSong's filename, and the file yt-dlp leaves at
\* <outputDir>/<filename>.<audioFormat>
FnDownload ==
  /\ fn.pc = "input"
  /\ fn' = [fn EXCEPT
       !.pc = "written",
       !.dir = {generateFilename(fn.trackName, fn.artistName, fn.ytId,
                                 extractTrackId(fn.spotifyUri))
                \o <<".">> \o AudioFormat}]
  /\ UNCHANGED notFn

FnScanYtIds ==
  /\ fn.pc = "written"
  /\ ~fn.ytScanned
  /\ fn' = [fn EXCEPT !.ytScanned = TRUE,
                      !.ytIds = getExistingYtIds(fn.dir, AudioFormat)]
  /\ UNCHANGED notFn

FnScanTrackIds ==
  /\ fn.pc = "written"
  /\ ~fn.trackScanned
  /\ fn' = [fn EXCEPT !.trackScanned = TRUE,
                      !.trackIds = getExistingTrackIds(fn.dir, AudioFormat)]
  /\ UNCHANGED notFn

FnNext == FnDownload \/ FnScanYtIds \/ FnScanTrackIds

SpecFilename == FnInit /\ [][FnNext]_vars

\* C1: building a filename and scanning it back with the two patterns
\* recovers exactly the catalog identifier and exactly the source track
\* identifier (both free of '.').
C1_RoundTrip ==
  /\ fn.ytScanned => fn.ytIds = {fn.ytId}
  /\ fn.trackScanned => fn.trackIds = {extractTrackId(fn.spotifyUri)}

\* The part of the round trip that the code does deliver: the source track
\* identifier comes back.
C1_TrackIdRecovered ==
  fn.trackScanned => fn.trackIds = {extractTrackId(fn.spotifyUri)}

\* ------------------------------------------------------------------------
\* Deduplicator (deduplicateTracks)
\* ------------------------------------------------------------------------

\* `${x}` of a template literal: null prints as the four letters "null"
TemplateString(x) == IF x = Null THEN <<"n", "u", "l", "l">> ELSE x

\* const key = `${track.artist_name}|${track.track_name}`
DedupKey(track) ==
  TemplateString(track.artist_name) \o <<"|">> \o TemplateString(track.track_name)

\* The for-loop over tracks. uniqueTracks is the Map's values in insertion
\* order; uniqueTracks.has(key) looks the key up among the stored entries.
RECURSIVE DedupLoop(_, _, _)
DedupLoop(tracks, k, uniqueTracks) ==
  IF k > Len(tracks) THEN uniqueTracks
  ELSE IF \E j \in 1..Len(uniqueTracks) : DedupKey(uniqueTracks[j]) = DedupKey(tracks[k])
       THEN DedupLoop(tracks, k + 1, uniqueTracks)
       ELSE DedupLoop(tracks, k + 1, Append(uniqueTracks, tracks[k]))

deduplicateTracks(tracks) == DedupLoop(tracks, 1, <<>>)

\* ------------------------------------------------------------------------
\* History parser (parseSpotifyStreamingHistory)
\* ------------------------------------------------------------------------

\* Array.prototype.sort() on the timestamps. A timestamp is modelled by its
\* rank among the ISO-8601 strings, whose code-unit order is the order of
\* the ranks. Insertion sort: stable, ascending.
RECURSIVE InsertAscending(_, _)
InsertAscending(sorted, x) ==
  IF sorted = <<>> THEN <<x>>
  ELSE IF sorted[Len(sorted)] <= x THEN Append(sorted, x)
  ELSE Append(InsertAscending(SubSeq(sorted, 1, Len(sorted) - 1), x), sorted[Len(sorted)])

RECURSIVE SortTimestamps(_)
SortTimestamps(ts) ==
  IF ts = <<>> THEN <<>>
  ELSE InsertAscending(SortTimestamps(SubSeq(ts, 1, Len(ts) - 1)), ts[Len(ts)])

\* .sort((a, b) => b.timestamps.length - a.timestamps.length): stable
\* (ECMAScript 2019), descending by number of timestamps.
\* A sort that is not stable: an element overtakes the earlier elements with
\* the same number of timestamps.
RECURSIVE InsertByPlayCountUnstable(_, _)
InsertByPlayCountUnstable(sorted, x) ==
  IF sorted = <<>> THEN <<x>>
  ELSE IF Len(sorted[Len(sorted)].timestamps) > Len(x.timestamps) THEN Append(sorted, x)
  ELSE Append(InsertByPlayCountUnstable(SubSeq(sorted, 1, Len(sorted) - 1), x),
              sorted[Len(sorted)])

RECURSIVE InsertByPlayCount(_, _)
InsertByPlayCount(sorted, x) ==
  IF sorted = <<>> THEN <<x>>
  ELSE IF Len(sorted[Len(sorted)].timestamps) >= Len(x.timestamps) THEN Append(sorted, x)
  ELSE Append(InsertByPlayCount(SubSeq(sorted, 1, Len(sorted) - 1), x), sorted[Len(sorted)])

RECURSIVE SortByPlayCount(_)
SortByPlayCount(tracks) ==
  IF tracks = <<>> THEN <<>>
  ELSE InsertByPlayCount(SortByPlayCount(SubSeq(tracks, 1, Len(tracks) - 1)),
                         tracks[Len(tracks)])

\* if (track.spotify_track_uri): null and the empty string are falsy
Truthy(str) == str # Null /\ str # Undef /\ str # <<>>

\* One iteration of `for (const track of tracks)`: trackMap is the Map's
\* values in insertion order.
\* A fold that lets every event of an identifier overwrite the names.
FoldEventLastNames(trackMap, track) ==
  IF ~Truthy(track.spotify_track_uri) THEN trackMap
  ELSE IF \E j \in 1..Len(trackMap) : trackMap[j].spotify_track_uri = track.spotify_track_uri
  THEN [j \in 1..Len(trackMap) |->
          IF trackMap[j].spotify_track_uri = track.spotify_track_uri
          THEN [trackMap[j] EXCEPT !.timestamps = Append(@, track.ts),
                                   !.track_name = track.master_metadata_track_name,
                                   !.artist_name = track.master_metadata_album_artist_name,
                                   !.album_name = track.master_metadata_album_album_name]
          ELSE trackMap[j]]
  ELSE Append(trackMap,
              [timestamps |-> <<track.ts>>,
               track_name |-> track.master_metadata_track_name,
               artist_name |-> track.master_metadata_album_artist_name,
               album_name |-> track.master_metadata_album_album_name,
               spotify_track_uri |-> track.spotify_track_uri])

FoldEvent(trackMap, track) ==
  IF ~Truthy(track.spotify_track_uri) THEN trackMap
  ELSE IF \E j \in 1..Len(trackMap) : trackMap[j].spotify_track_uri = track.spotify_track_uri
  THEN [j \in 1..Len(trackMap) |->
          IF trackMap[j].spotify_track_uri = track.spotify_track_uri
          THEN [trackMap[j] EXCEPT !.timestamps = Append(@, track.ts)]
          ELSE trackMap[j]]
  ELSE Append(trackMap,
              [timestamps |-> <<track.ts>>,
               track_name |-> track.master_metadata_track_name,
               artist_name |-> track.master_metadata_album_artist_name,
               album_name |-> track.master_metadata_album_album_name,
               spotify_track_uri |-> track.spotify_track_uri])

\* Array.from(trackMap.values()).map(data => ({timestamps: data.timestamps.sort(), ...}))
SortedTimestamps(trackMap) ==
  [j \in 1..Len(trackMap) |->
     [trackMap[j] EXCEPT !.timestamps = SortTimestamps(@)]]

\* deduplicateTracks(...).sort(...): the deduplicator runs on the tracks in
\* Map insertion order, the sort by play count runs on what it returns.
BuildOutputTracks(trackMap) ==
  SortByPlayCount(deduplicateTracks(SortedTimestamps(trackMap)))

\* ------------------------------------------------------------------------
\* Specification SpecParse: the events of a history file are folded one by
\* one, in the order the file lists them, and when the file ends the output
\* sequence is built. ps.events is the part of the file read so far.
\* ------------------------------------------------------------------------

MaxEvents == 4

Timestamps == {1, 2}
UriA == <<"s", ":", "A">>
UriB == <<"s", ":", "B">>
UriC == <<"s", ":", "C">>
MetaAB == [track |-> <<"a">>, artist |-> <<"b">>, album |-> <<"x">>]
MetaCB == [track |-> <<"c">>, artist |-> <<"b">>, album |-> Null]
MetaDB == [track |-> <<"d">>, artist |-> <<"b">>, album |-> <<"x">>]

\* The identifier and the names an event may carry: no identifier, one
\* identifier under two names, two identifiers under the same names, and
\* three identifiers under three different names.
EventSources ==
  {[uri |-> Null, meta |-> MetaAB],
   [uri |-> UriA, meta |-> MetaAB], [uri |-> UriA, meta |-> MetaCB],
   [uri |-> UriB, meta |-> MetaAB], [uri |-> UriB, meta |-> MetaCB],
   [uri |-> UriC, meta |-> MetaDB]}

Events ==
  {[ts |-> t, spotify_track_uri |-> e.uri,
    master_metadata_track_name |-> e.meta.track,
    master_metadata_album_artist_name |-> e.meta.artist,
    master_metadata_album_album_name |-> e.meta.album] :
     t \in Timestamps, e \in EventSources}

PsInit ==
  /\ fn = Off /\ dd = Off /\ mt = Off /\ RunOff
  /\ ps = [pc |-> "fold", events |-> <<>>, trackMap |-> <<>>, outputTracks |-> <<>>]

PsFoldEvent ==
  /\ ps.pc = "fold"
  /\ Len(ps.events) < MaxEvents
  /\ \E track \in Events :
       ps' = [ps EXCEPT !.events = Append(ps.events, track),
                        !.trackMap = FoldEvent(ps.trackMap, track)]
  /\ UNCHANGED notPs

PsFinish ==
  /\ ps.pc = "fold"
  /\ ps' = [ps EXCEPT !.pc = "done",
                      !.outputTracks = BuildOutputTracks(ps.trackMap)]
  /\ UNCHANGED notPs

PsNext == PsFoldEvent \/ PsFinish

SpecParse == PsInit /\ [][PsNext]_vars

\* The position of the first event of the input that carries a source
\* identifier, and how often a value occurs in a sequence.
FirstEventOf(uri) ==
  Min({k \in 1..Len(ps.events) : ps.events[k].spotify_track_uri = uri})

Count(seq, x) == Cardinality({k \in 1..Len(seq) : seq[k] = x})

TimestampsOf(uri) ==
  LET carrying == SelectSeq(ps.events, LAMBDA e : e.spotify_track_uri = uri)
  IN  [k \in 1..Len(carrying) |-> carrying[k].ts]

SameNames(a, b) == a.artist_name = b.artist_name /\ a.track_name = b.track_name

\* C2: among the aggregated tracks that share an (artist name, track name)
\* pair, the one in the parser's output is the most-played one: no
\* aggregated track with the same pair has more timestamps than it.
C2_SurvivorIsMostPlayed ==
  ps.pc = "done" =>
    \A o \in 1..Len(ps.outputTracks) : \A j \in 1..Len(ps.trackMap) :
      SameNames(ps.outputTracks[o], ps.trackMap[j]) =>
        Len(ps.outputTracks[o].timestamps) >= Len(ps.trackMap[j].timestamps)

\* C6: the parser's output is sorted by descending number of timestamps,
\* and two tracks with equally many appear in the order in which their
\* source identifiers were first encountered in the input.
C6_Ordering ==
  ps.pc = "done" =>
    \A i, j \in 1..Len(ps.outputTracks) :
      i < j =>
        LET a == ps.outputTracks[i]
            b == ps.outputTracks[j]
        IN  /\ Len(a.timestamps) >= Len(b.timestamps)
            /\ Len(a.timestamps) = Len(b.timestamps) =>
                 FirstEventOf(a.spotify_track_uri) < FirstEventOf(b.spotify_track_uri)

\* C6's case: the sort moved a later-encountered track in front of an
\* earlier one, and the output has a tie.
C6_Witness ==
  /\ ps.pc = "done"
  /\ \E i, j \in 1..Len(ps.outputTracks) :
       /\ i < j
       /\ FirstEventOf(ps.outputTracks[i].spotify_track_uri)
            > FirstEventOf(ps.outputTracks[j].spotify_track_uri)
  /\ \E i, j \in 1..Len(ps.outputTracks) :
       /\ i < j
       /\ Len(ps.outputTracks[i].timestamps) = Len(ps.outputTracks[j].timestamps)

\* C7: every track of the parser's output has a non-empty timestamp
\* sequence that is the ascending-sorted collection of the timestamps of all
\* input events with its source identifier, its names are those of the
\* first such event, and no track stands for the events without identifier.
C7_Aggregation ==
  ps.pc = "done" =>
    \A o \in 1..Len(ps.outputTracks) :
      LET t == ps.outputTracks[o]
          first == ps.events[FirstEventOf(t.spotify_track_uri)]
      IN  /\ t.spotify_track_uri # Null
          /\ t.timestamps # <<>>
          /\ \A k \in 1..(Len(t.timestamps) - 1) : t.timestamps[k] <= t.timestamps[k + 1]
          /\ \A x \in Timestamps :
               Count(t.timestamps, x) = Count(TimestampsOf(t.spotify_track_uri), x)
          /\ t.track_name = first.master_metadata_track_name
          /\ t.artist_name = first.master_metadata_album_artist_name
          /\ t.album_name = first.master_metadata_album_album_name

\* C7's case: a track aggregated from two events that arrived out of
\* timestamp order and with different names, beside an event without
\* identifier.
C7_Witness ==
  /\ ps.pc = "done"
  /\ \E k \in 1..Len(ps.events) : ps.events[k].spotify_track_uri = Null
  /\ \E o \in 1..Len(ps.outputTracks) : \E j, k \in 1..Len(ps.events) :
       /\ j < k
       /\ ps.events[j].spotify_track_uri = ps.outputTracks[o].spotify_track_uri
       /\ ps.events[k].spotify_track_uri = ps.outputTracks[o].spotify_track_uri
       /\ ps.events[j].ts > ps.events[k].ts
       /\ ps.events[j].master_metadata_track_name # ps.events[k].master_metadata_track_name

\* ------------------------------------------------------------------------
\* Specification SpecDedup: deduplicateTracks applied to a sequence of
\* tracks, as main applies it to the tracks of a pre-processed history file.
\* ------------------------------------------------------------------------

MaxDedupTracks == 3

Digits == <<"1", "2", "3", "4", "5", "6", "7", "8", "9">>

\* Names as a history file may hold them: null, a plain name, a name with
\* the character '|', and the name spelled "null".
DdNames == {Null, <<"a">>, <<"a", "|", "a">>, <<"n", "u", "l", "l">>}

\* Tracks with the given names; the k-th has the source identifier s:<k>.
DdTracks(names) ==
  [k \in 1..Len(names) |->
     [timestamps |-> <<1>>,
      track_name |-> names[k].track, artist_name |-> names[k].artist,
      album_name |-> Null,
      spotify_track_uri |-> <<"s", ":", Digits[k]>>]]

DdInit ==
  /\ fn = Off /\ ps = Off /\ mt = Off /\ RunOff
  /\ \E n \in 0..MaxDedupTracks :
       \E names \in [1..n -> [track : DdNames, artist : DdNames]] :
         dd = [pc |-> "input", tracks |-> DdTracks(names), result |-> <<>>]

DdDeduplicate ==
  /\ dd.pc = "input"
  /\ dd' = [dd EXCEPT !.pc = "done", !.result = deduplicateTracks(dd.tracks)]
  /\ UNCHANGED notDd

DdNext == DdDeduplicate

SpecDedup == DdInit /\ [][DdNext]_vars

\* The positions of the tracks that no earlier track of the sequence equals
\* in both artist name and track name.
FirstOccurrences(tracks) ==
  {k \in 1..Len(tracks) : \A j \in 1..(k - 1) : ~SameNames(tracks[j], tracks[k])}

\* C8: deduplicateTracks returns exactly the first occurrence of each
\* distinct (artist name, track name) pair, in input order: a track is
\* removed only if an earlier track has the same artist name and the same
\* track name, and one track survives per pair.
C8_FirstOccurrences ==
  dd.pc = "done" =>
    LET keep == FirstOccurrences(dd.tracks)
    IN  /\ Len(dd.result) = Cardinality(keep)
        /\ \A k \in keep :
             dd.result[Cardinality({j \in keep : j <= k})] = dd.tracks[k]

\* ------------------------------------------------------------------------
\* Catalog matcher (searchYouTubeMusic, selectBestMatch, shouldSkipSong,
\* formatSongResult)
\* ------------------------------------------------------------------------

\* String.prototype.toLowerCase on the letters the model's strings use
LowerChar(c) ==
  CASE c = "A" -> "a"
    [] c = "B" -> "b"
    [] OTHER -> c

toLowerCase(str) == [k \in 1..Len(str) |-> LowerChar(str[k])]

\* String.prototype.includes
Includes(str, part) ==
  \E k \in 1..(Len(str) - Len(part) + 1) : SubSeq(str, k, k + Len(part) - 1) = part

\* String.prototype.split(sep), sep one character
RECURSIVE Split(_, _)
Split(str, sep) ==
  LET seps == {k \in 1..Len(str) : str[k] = sep}
  IN  IF seps = {} THEN <<str>>
      ELSE <<SubSeq(str, 1, Min(seps) - 1)>>
             \o Split(SubSeq(str, Min(seps) + 1, Len(str)), sep)

\* config.blacklistedKeywords of parseCliArguments: an absent or empty
\* --blacklist gives no keyword.
ParseBlacklist(flag) ==
  IF ~Truthy(flag) THEN <<>>
  ELSE LET parts == Split(flag, ",")
       IN  [k \in 1..Len(parts) |-> toLowerCase(Trim(parts[k]))]

\* config.maxDuration (the default of --max-duration)
MaxDuration == 420

\* What selectBestMatch returns for "no song" (null), and what
\* searchYouTubeMusic returns for "no usable match" (null).
NoSong == [none |-> TRUE]

\* songs.find(song => title equal && artists.some(name equal))
IsExactMatch(song, normalizedTitle, normalizedArtist) ==
  /\ song.title # Undef
  /\ Trim(toLowerCase(song.title)) = normalizedTitle
  /\ song.artists # UndefArray
  /\ \E a \in 1..Len(song.artists) :
       Trim(toLowerCase(song.artists[a].name)) = normalizedArtist

\* A matcher that takes the first result whatever the exact matches are.
selectFirstResult(songs, targetTitle, targetArtist) ==
  IF /\ songs # <<>>
     /\ Truthy(songs[1].title)
     /\ songs[1].artists # UndefArray
     /\ Len(songs[1].artists) >= 1
  THEN songs[1]
  ELSE NoSong

selectBestMatch(songs, targetTitle, targetArtist) ==
  LET normalizedTitle == Trim(toLowerCase(targetTitle))
      normalizedArtist == Trim(toLowerCase(targetArtist))
      exact == {k \in 1..Len(songs) :
                  IsExactMatch(songs[k], normalizedTitle, normalizedArtist)}
  IN  IF exact # {} THEN songs[Min(exact)]
      ELSE IF /\ songs # <<>>
              /\ Truthy(songs[1].title)
              /\ songs[1].artists # UndefArray
              /\ Len(songs[1].artists) >= 1
           THEN songs[1]
           ELSE NoSong

\* An exclusion rule that looks for the keywords in the title only.
shouldSkipSongTitleOnly(song, blacklistedKeywords) ==
  LET exceedsMaxDuration ==
        /\ song.duration # UndefObject
        /\ song.duration.seconds # 0
        /\ song.duration.seconds > MaxDuration
      containsBlacklistedKeywords ==
        \E w \in 1..Len(blacklistedKeywords) :
          song.title # Undef /\ Includes(toLowerCase(song.title), blacklistedKeywords[w])
  IN  exceedsMaxDuration \/ containsBlacklistedKeywords

shouldSkipSong(song, blacklistedKeywords) ==
  LET exceedsMaxDuration ==
        /\ song.duration # UndefObject
        /\ song.duration.seconds # 0
        /\ song.duration.seconds > MaxDuration
      containsBlacklistedKeywords ==
        \E w \in 1..Len(blacklistedKeywords) :
          \/ song.title # Undef
               /\ Includes(toLowerCase(song.title), blacklistedKeywords[w])
          \/ song.artists # UndefArray
               /\ \E a \in 1..Len(song.artists) :
                    Includes(toLowerCase(song.artists[a].name), blacklistedKeywords[w])
  IN  exceedsMaxDuration \/ containsBlacklistedKeywords

OrEmpty(x) == IF Truthy(x) THEN x ELSE <<>>

formatSongResult(song) ==
  IF ~Truthy(song.id) \/ ~Truthy(song.title) \/ song.duration = UndefObject THEN NoSong
  ELSE [id |-> song.id,
        title |-> song.title,
        thumbnails |-> IF song.thumbnails = UndefArray THEN <<>> ELSE song.thumbnails,
        duration |-> song.duration,
        album |-> IF song.album = UndefObject
                  THEN [id |-> <<>>, name |-> <<>>]
                  ELSE [id |-> OrEmpty(song.album.id), name |-> OrEmpty(song.album.name)],
        artists |-> IF song.artists = UndefArray THEN <<>>
                    ELSE [a \in 1..Len(song.artists) |->
                            [channel_id |-> OrEmpty(song.artists[a].channel_id),
                             name |-> song.artists[a].name]]]

\* The answer of this.yt.music.search: the call throws, or it gives the
\* list search.songs.contents (UndefArray when the response has none).
Throws == <<[throws |-> TRUE]>>

\* searchYouTubeMusic(title, artist), given what the search answers: the
\* song selectBestMatch returned (NoSong when it was not called or returned
\* null) and the function's result.
searchYouTubeMusic(title, artist, answer, blacklistedKeywords) ==
  IF \/ ~Truthy(title) \/ Trim(title) = <<>>
     \/ ~Truthy(artist) \/ Trim(artist) = <<>>
  THEN [queried |-> FALSE, song |-> NoSong, result |-> NoSong]
  ELSE IF answer = Throws \/ answer = UndefArray \/ answer = <<>>
  THEN [queried |-> TRUE, song |-> NoSong, result |-> NoSong]
  ELSE LET song == selectBestMatch(answer, title, artist)
       IN  IF song = NoSong
           THEN [queried |-> TRUE, song |-> NoSong, result |-> NoSong]
           ELSE IF shouldSkipSong(song, blacklistedKeywords)
           THEN [queried |-> TRUE, song |-> song, result |-> NoSong]
           ELSE [queried |-> TRUE, song |-> song, result |-> formatSongResult(song)]

\* ------------------------------------------------------------------------
\* Specification SpecMatch: one call of searchYouTubeMusic on the answer of
\* the external search.
\* ------------------------------------------------------------------------

MaxSongs == 2

MtTitles == {Undef, <<"a">>, <<" ", "A">>, <<"a", "B">>}
MtArtists ==
  {UndefArray, <<>>,
   <<[name |-> <<"a">>, channel_id |-> Undef]>>,
   <<[name |-> <<"B">>, channel_id |-> <<"c">>], [name |-> <<"A", " ">>, channel_id |-> Undef]>>}
MtDurations == {UndefObject, [text |-> <<"1">>, seconds |-> 100], [text |-> <<"8">>, seconds |-> 500]}

\* The k-th result of an answer has the identifier y<k>.
MtSongs(fields) ==
  [k \in 1..Len(fields) |->
     [id |-> <<"y", Digits[k]>>, title |-> fields[k].title,
      thumbnails |-> UndefArray, duration |-> fields[k].duration,
      album |-> UndefObject, artists |-> fields[k].artists]]

MtFields == [title : MtTitles, artists : MtArtists, duration : MtDurations]

MtTargets ==
  {[title |-> <<" ", "A">>, artist |-> <<"A", " ">>],
   [title |-> <<" ">>, artist |-> <<"a">>]}

\* --blacklist as given on the command line: absent, or " B"
MtBlacklistFlags == {Undef, <<" ", "B">>}

MtStart(target, flag, answer) ==
  mt = [pc |-> "input", title |-> target.title, artist |-> target.artist,
        answer |-> answer, blacklistedKeywords |-> ParseBlacklist(flag),
        queried |-> FALSE, song |-> NoSong, result |-> NoSong]

\* A blank title is refused before the search is made: for it, answers of
\* at most one result are enough to show that the answer is not looked at.
MtInit ==
  /\ fn = Off /\ ps = Off /\ dd = Off /\ RunOff
  /\ \E target \in MtTargets, flag \in MtBlacklistFlags :
       \/ \E answer \in {Throws, UndefArray} : MtStart(target, flag, answer)
       \/ \E n \in 0..(IF Trim(target.title) = <<>> THEN 1 ELSE MaxSongs) :
            \E f \in [1..n -> MtFields] : MtStart(target, flag, MtSongs(f))

MtSearch ==
  /\ mt.pc = "input"
  /\ LET r == searchYouTubeMusic(mt.title, mt.artist, mt.answer, mt.blacklistedKeywords)
     IN  mt' = [mt EXCEPT !.pc = "done", !.queried = r.queried,
                          !.song = r.song, !.result = r.result]
  /\ UNCHANGED notMt

MtNext == MtSearch

SpecMatch == MtInit /\ [][MtNext]_vars

\* "Has a title" and "has at least one artist", as selectBestMatch's
\* fallback asks of the first result.
HasTitleAndArtist(song) ==
  /\ song.title # Undef /\ song.title # <<>>
  /\ song.artists # UndefArray /\ song.artists # <<>>

\* Equal when compared case-insensitively after trimming.
SameText(a, b) == Trim(toLowerCase(a)) = Trim(toLowerCase(b))

\* The positions of the candidates whose title equals the target title and
\* one of whose artists equals the target artist.
ExactCandidates ==
  {k \in 1..Len(mt.answer) :
     /\ mt.answer[k].title # Undef
     /\ SameText(mt.answer[k].title, mt.title)
     /\ mt.answer[k].artists # UndefArray
     /\ \E a \in 1..Len(mt.answer[k].artists) :
          SameText(mt.answer[k].artists[a].name, mt.artist)}

\* C9: when the search was made and gave results, selectBestMatch returns
\* the first candidate in result order that matches title and artist exactly
\* (case-insensitively, trimmed), wherever it stands in the list; without
\* such a candidate it returns the first result if that has a title and at
\* least one artist, and null otherwise.
C9_ExactMatchPrecedence ==
  (mt.pc = "done" /\ mt.queried /\ mt.answer # Throws /\ mt.answer # UndefArray
     /\ mt.answer # <<>>) =>
    IF ExactCandidates # {}
    THEN mt.song = mt.answer[Min(ExactCandidates)]
    ELSE IF HasTitleAndArtist(mt.answer[1])
         THEN mt.song = mt.answer[1]
         ELSE mt.song = NoSong

\* C9's case: the first result has a title and an artist but is no exact
\* match, a later result is, and the later one was selected.
C9_Witness ==
  /\ mt.pc = "done" /\ mt.queried
  /\ mt.answer # Throws /\ mt.answer # UndefArray /\ Len(mt.answer) >= 2
  /\ HasTitleAndArtist(mt.answer[1])
  /\ 1 \notin ExactCandidates
  /\ ExactCandidates # {}
  /\ mt.song = mt.answer[Min(ExactCandidates)]

\* The exclusion rules: a duration above the ceiling, or a blacklisted
\* keyword inside the title or an artist name, whatever the case of the
\* letters.
Excluded(song) ==
  \/ song.duration # UndefObject /\ song.duration.seconds > MaxDuration
  \/ \E w \in 1..Len(mt.blacklistedKeywords) :
       \/ song.title # Undef
            /\ Includes(toLowerCase(song.title), toLowerCase(mt.blacklistedKeywords[w]))
       \/ song.artists # UndefArray
            /\ \E a \in 1..Len(song.artists) :
                 Includes(toLowerCase(song.artists[a].name),
                          toLowerCase(mt.blacklistedKeywords[w]))

\* C10: when the candidate the matcher selected is excluded, the search
\* returns null: no other candidate of the list is returned in its place.
C10_ExclusionAbandons ==
  (mt.pc = "done" /\ mt.song # NoSong /\ Excluded(mt.song)) => mt.result = NoSong

\* C10's case: the selected candidate is excluded while another candidate
\* of the list passes the exclusion rules and could be returned.
C10_Witness ==
  /\ mt.pc = "done" /\ mt.song # NoSong /\ Excluded(mt.song)
  /\ mt.result = NoSong
  /\ \E k \in 1..Len(mt.answer) :
       /\ mt.answer[k] # mt.song
       /\ HasTitleAndArtist(mt.answer[k])
       /\ ~Excluded(mt.answer[k])
       /\ formatSongResult(mt.answer[k]) # NoSong

\* ------------------------------------------------------------------------
\* Fetch orchestrator (main, filterNewTracks, processSpotifyHistory,
\* downloadSong, getRandomWaitTime)
\* ------------------------------------------------------------------------

\* tracks.filter(track => !existingTrackIds.has(track.spotify_track_uri.split(':').pop() || ''))
filterNewTracks(all, existingTrackIds) ==
  SelectSeq(all, LAMBDA track : LastSegment(track.spotify_track_uri) \notin existingTrackIds)

\* config.minWaitTime, config.maxWaitTime (the defaults, in seconds) and the
\* pause after a search that matched (milliseconds)
MinWaitTime == 6
MaxWaitTime == 10
SearchPauseMs == 2000

\* Math.random() is n / RandomSteps for some n in 0..RandomSteps-1
RandomSteps == 5

\* A wait time that leaves out the minimum.
getRandomWaitTimeNoMin(n) ==
  ((n * (MaxWaitTime - MinWaitTime + 1)) \div RandomSteps) * 1000

\* Math.floor(Math.random() * (maxWaitTime - minWaitTime + 1) + minWaitTime) * 1000
getRandomWaitTime(n) ==
  (((n * (MaxWaitTime - MinWaitTime + 1)) \div RandomSteps) + MinWaitTime) * 1000

\* `${outputDir}/${filename}.${audioFormat}` of downloadSong, as a name
\* inside the output directory
OutputFile(song, track) ==
  generateFilename(track.track_name, track.artist_name, song.id,
                   extractTrackId(track.spotify_track_uri))
    \o <<".">> \o AudioFormat

\* What yt-dlp does with one invocation: it reports success and leaves the
\* file, reports success and leaves no file of that name, reports failure,
\* or executeYtdlp throws (the exception is caught by downloadSong).
FetchOutcomes == {"written", "missing", "failed", "throws"}

\* What executeYtdlp gave downloadSong: true, false or an exception.
FetchReport(fetch) ==
  CASE fetch \in {"written", "missing"} -> "success"
    [] fetch = "failed" -> "failure"
    [] fetch = "throws" -> "throws"

\* A downloadSong that takes the report of yt-dlp for the result.
downloadSongTrustsReport(valid, fetch, fileCreated) ==
  valid /\ FetchReport(fetch) = "success"

\* The result of downloadSong, lines 349-392: false for invalid song data,
\* for a failed or throwing yt-dlp and for a file that is not there.
downloadSong(valid, fetch, fileCreated) ==
  valid /\ FetchReport(fetch) = "success" /\ fileCreated

\* ------------------------------------------------------------------------
\* Specification Spec: main from the loaded history on, run twice over the
\* same history and the same output directory.
\* ------------------------------------------------------------------------

MaxTracks == 2

Y1 == <<"y", "1">>
Y2 == <<"y", "2">>

RunTrack(name, artist, uri) ==
  [timestamps |-> <<1>>, track_name |-> name, artist_name |-> artist,
   album_name |-> Null, spotify_track_uri |-> uri]

\* Two tracks with different names, a re-release of the first (same names,
\* another identifier), a track without name, and a track whose URI ends
\* with its last colon.
RunTracks ==
  {RunTrack(<<"a">>, <<"b">>, UriA),
   RunTrack(<<"c">>, <<"b">>, UriB),
   RunTrack(<<"a">>, <<"b">>, UriC),
   RunTrack(Null, <<"b">>, <<"s", ":", "D">>),
   RunTrack(<<"d">>, <<"b">>, <<"s", ":">>)}

\* The catalog's answer to a search: the call throws, or one result, which
\* the matcher takes as closest match.
RunSong(id) ==
  [id |-> id, title |-> <<"x">>, thumbnails |-> UndefArray,
   duration |-> [text |-> <<"1">>, seconds |-> 100],
   album |-> UndefObject,
   artists |-> <<[name |-> <<"z">>, channel_id |-> Undef]>>]

RunAnswers == {Throws, <<RunSong(Y1)>>, <<RunSong(Y2)>>}

\* A file of the output directory that generateFilename did not name: the
\* catalog identifier is directly followed by the extension.
ForeignFile == <<"x">> \o SepYtId \o Y1 \o <<".">> \o AudioFormat

\* The catalog identifiers the answers of this specification carry.
RunYtIds == {Y1, Y2}

\* this.searchYouTubeMusic(track.track_name, track.artist_name) of line 468,
\* tabulated over the tracks and the catalog's answers.
SearchOf ==
  [track \in RunTracks, answer \in RunAnswers |->
     searchYouTubeMusic(track.track_name, track.artist_name, answer, <<>>)]

\* The output file of downloadSong, tabulated over the tracks and the
\* catalog identifiers.
OutputFileOf ==
  [track \in RunTracks, id \in RunYtIds |-> OutputFile([id |-> id], track)]

NoItem ==
  [outcome |-> "none", queried |-> FALSE, songId |-> <<>>, fetches |-> 0,
   report |-> "none", pause |-> 0, wait |-> 0, uri |-> <<>>]

ZeroStats == [successful |-> 0, failed |-> 0, skipped |-> 0]

Init ==
  /\ fn = Off /\ ps = Off /\ dd = Off /\ mt = Off
  /\ \E n \in 0..MaxTracks : \E f \in [1..n -> RunTracks] :
       /\ \A j, k \in 1..n : j # k => f[j].spotify_track_uri # f[k].spotify_track_uri
       /\ allTracks = f
  /\ outputDir \in {{}, {ForeignFile}}
  /\ run = "first"
  /\ pc = "start"
  /\ uniqueNewTracks = <<>>
  /\ itemIndex = 0
  /\ existingYtIds = {}
  /\ stats = ZeroStats
  /\ last = NoItem
  /\ firstRunSuccessful = {}
  /\ fetchedYtIds = {}

\* const track = tracks[i]
currentTrack == uniqueNewTracks[itemIndex]

\* main, lines 718-728, and the head of processSpotifyHistory, lines 452-453
StartRun ==
  /\ pc = "start"
  /\ uniqueNewTracks' = deduplicateTracks(
                 filterNewTracks(allTracks, getExistingTrackIds(outputDir, AudioFormat)))
  /\ existingYtIds' = getExistingYtIds(outputDir, AudioFormat)
  /\ stats' = ZeroStats
  /\ itemIndex' = 1
  /\ last' = NoItem
  /\ fetchedYtIds' = {}
  /\ pc' = "loop"
  /\ UNCHANGED <<allTracks, outputDir, run, firstRunSuccessful>>
  /\ UNCHANGED notRun

\* An orchestrator that passes over a track with missing metadata without
\* counting it.
MissingMetadataUncounted ==
  /\ pc = "loop" /\ itemIndex <= Len(uniqueNewTracks)
  /\ ~Truthy(currentTrack.track_name) \/ ~Truthy(currentTrack.artist_name)
  /\ last' = [NoItem EXCEPT !.outcome = "Failed", !.uri = currentTrack.spotify_track_uri]
  /\ itemIndex' = itemIndex + 1
  /\ UNCHANGED <<allTracks, outputDir, run, pc, uniqueNewTracks, existingYtIds,
                 stats, firstRunSuccessful, fetchedYtIds>>
  /\ UNCHANGED notRun

\* if (!track.track_name || !track.artist_name) { stats.failed++; continue; }
MissingMetadata ==
  /\ pc = "loop" /\ itemIndex <= Len(uniqueNewTracks)
  /\ ~Truthy(currentTrack.track_name) \/ ~Truthy(currentTrack.artist_name)
  /\ stats' = [stats EXCEPT !.failed = @ + 1]
  /\ last' = [NoItem EXCEPT !.outcome = "Failed", !.uri = currentTrack.spotify_track_uri]
  /\ itemIndex' = itemIndex + 1
  /\ UNCHANGED <<allTracks, outputDir, run, pc, uniqueNewTracks, existingYtIds,
                 firstRunSuccessful, fetchedYtIds>>
  /\ UNCHANGED notRun

\* if (!song) { stats.failed++; continue; }
NoMatchFound ==
  /\ pc = "loop" /\ itemIndex <= Len(uniqueNewTracks)
  /\ Truthy(currentTrack.track_name) /\ Truthy(currentTrack.artist_name)
  /\ \E answer \in RunAnswers :
       LET r == SearchOf[currentTrack, answer]
       IN  /\ r.result = NoSong
           /\ last' = [NoItem EXCEPT !.outcome = "Failed", !.queried = r.queried,
                                     !.uri = currentTrack.spotify_track_uri]
  /\ stats' = [stats EXCEPT !.failed = @ + 1]
  /\ itemIndex' = itemIndex + 1
  /\ UNCHANGED <<allTracks, outputDir, run, pc, uniqueNewTracks, existingYtIds,
                 firstRunSuccessful, fetchedYtIds>>
  /\ UNCHANGED notRun

\* if (existingYtIds.has(song.id)) { stats.skipped++; continue; }
SkipKnown ==
  /\ pc = "loop" /\ itemIndex <= Len(uniqueNewTracks)
  /\ Truthy(currentTrack.track_name) /\ Truthy(currentTrack.artist_name)
  /\ \E answer \in RunAnswers :
       LET r == SearchOf[currentTrack, answer]
       IN  /\ r.result # NoSong
           /\ r.result.id \in existingYtIds
           /\ last' = [NoItem EXCEPT !.outcome = "Skipped", !.queried = r.queried,
                                     !.songId = r.result.id, !.pause = SearchPauseMs,
                                     !.uri = currentTrack.spotify_track_uri]
  /\ stats' = [stats EXCEPT !.skipped = @ + 1]
  /\ itemIndex' = itemIndex + 1
  /\ UNCHANGED <<allTracks, outputDir, run, pc, uniqueNewTracks, existingYtIds,
                 firstRunSuccessful, fetchedYtIds>>
  /\ UNCHANGED notRun

\* The rest of the iteration, lines 484-501: downloadSong, the counters, and
\* the wait before the next item. known is what existingYtIds.has(song.id)
\* must answer for the download to be reached.
DownloadWhen(known) ==
  /\ pc = "loop" /\ itemIndex <= Len(uniqueNewTracks)
  /\ Truthy(currentTrack.track_name) /\ Truthy(currentTrack.artist_name)
  /\ \E answer \in RunAnswers :
       LET r == SearchOf[currentTrack, answer]
           song == r.result
           \* downloadSong: if (!song.id || !song.title) return false
           valid == Truthy(song.id) /\ Truthy(song.title)
           file == OutputFileOf[currentTrack, song.id]
       IN  /\ song # NoSong
           /\ (song.id \in existingYtIds) = known
           /\ \E fetch \in FetchOutcomes :
                LET dirAfter == IF valid /\ fetch = "written"
                                THEN outputDir \cup {file} ELSE outputDir
                    success == downloadSong(valid, fetch, file \in dirAfter)
                IN  /\ outputDir' = dirAfter
                    /\ stats' = IF success THEN [stats EXCEPT !.successful = @ + 1]
                                           ELSE [stats EXCEPT !.failed = @ + 1]
                    /\ firstRunSuccessful' =
                         IF success /\ run = "first"
                         THEN firstRunSuccessful \cup {currentTrack.spotify_track_uri}
                         ELSE firstRunSuccessful
                    \* if (i < tracks.length - 1) await this.delay(getRandomWaitTime())
                    /\ \E wait \in IF itemIndex < Len(uniqueNewTracks)
                                   THEN {getRandomWaitTime(n) : n \in 0..(RandomSteps - 1)}
                                   ELSE {0} :
                         last' = [outcome |-> IF success THEN "Successful" ELSE "Failed",
                                  queried |-> r.queried,
                                  songId |-> song.id,
                                  fetches |-> IF valid THEN 1 ELSE 0,
                                  report |-> IF valid THEN FetchReport(fetch) ELSE "none",
                                  pause |-> SearchPauseMs,
                                  wait |-> wait,
                                  uri |-> currentTrack.spotify_track_uri]
           /\ fetchedYtIds' = IF valid THEN fetchedYtIds \cup {song.id} ELSE fetchedYtIds
  /\ itemIndex' = itemIndex + 1
  /\ UNCHANGED <<allTracks, run, pc, uniqueNewTracks, existingYtIds>>
  /\ UNCHANGED notRun

\* An orchestrator that downloads whether or not the identifier is known.
DownloadAlways == DownloadWhen(TRUE) \/ DownloadWhen(FALSE)

Download == DownloadWhen(FALSE)

\* The loop ends: the summary line 508.
Summary ==
  /\ pc = "loop" /\ itemIndex > Len(uniqueNewTracks)
  /\ pc' = "done"
  /\ UNCHANGED <<allTracks, outputDir, run, uniqueNewTracks, itemIndex, existingYtIds,
                 stats, last, firstRunSuccessful, fetchedYtIds>>
  /\ UNCHANGED notRun

\* The program is started again on the same history, output directory and
\* audio format.
RunAgain ==
  /\ pc = "done" /\ run = "first"
  /\ run' = "later"
  /\ pc' = "start"
  /\ UNCHANGED <<allTracks, outputDir, uniqueNewTracks, itemIndex, existingYtIds,
                 stats, last, firstRunSuccessful, fetchedYtIds>>
  /\ UNCHANGED notRun

Next ==
  \/ StartRun
  \/ MissingMetadata
  \/ NoMatchFound
  \/ SkipKnown
  \/ Download
  \/ Summary
  \/ RunAgain

Spec == Init /\ [][Next]_vars

\* An item of the current run has been processed; last describes it.
ItemDone == pc \in {"loop", "done"} /\ itemIndex > 1

\* C3: a track that the first run recorded as Successful is removed before
\* the orchestration of a later run over the same history and output
\* directory: it is not among the tracks handed to processSpotifyHistory, so
\* no catalog query and no fetch is made for it.
C3_IdempotentRerun ==
  (run = "later" /\ pc \in {"loop", "done"}) =>
    \A k \in 1..Len(uniqueNewTracks) :
      uniqueNewTracks[k].spotify_track_uri \notin firstRunSuccessful

\* C4: when the matched candidate's catalog identifier is in the set built
\* at the start of the run, the item is counted as Skipped (and as nothing
\* else) and no fetch is made: the output directory stays as it is.
C4_SkipKnown ==
  [][(pc = "loop" /\ itemIndex' = itemIndex + 1 /\ last'.songId \in existingYtIds) =>
       /\ stats' = [stats EXCEPT !.skipped = @ + 1]
       /\ last'.outcome = "Skipped"
       /\ last'.fetches = 0
       /\ fetchedYtIds' = fetchedYtIds
       /\ outputDir' = outputDir]_vars

\* C4's case: an item whose match is a known catalog identifier was
\* processed.
C4_Witness ==
  /\ ItemDone
  /\ last.queried
  /\ last.songId \in existingYtIds
  /\ last.outcome = "Skipped"
  /\ stats.skipped >= 1

WaitTimes == {s * 1000 : s \in MinWaitTime..MaxWaitTime}

\* C5 as stated: after every item except the last, whatever its outcome, a
\* randomized delay of a whole number of seconds between the minimum and the
\* maximum is applied; none after the last item.
C5_DelayAfterEveryItem ==
  ItemDone =>
    IF itemIndex - 1 < Len(uniqueNewTracks)
    THEN last.wait \in WaitTimes
    ELSE last.wait = 0

\* C5 as amended: the delay follows every item except the last for which
\* the download was attempted, whether it ended Successful or Failed; an
\* item that was Skipped, or that Failed before any download (missing
\* metadata, no match), is followed by no such delay, and neither is the
\* last item.
C5_DelayAfterDownload ==
  ItemDone =>
    IF itemIndex - 1 < Len(uniqueNewTracks) /\ last.fetches = 1
    THEN last.wait \in WaitTimes
    ELSE last.wait = 0

\* C5's case: a download was attempted for an item that is not the last
\* and the wait followed it.
C5_Witness ==
  /\ ItemDone
  /\ itemIndex - 1 < Len(uniqueNewTracks)
  /\ last.fetches = 1
  /\ last.outcome = "Failed"
  /\ last.wait = MaxWaitTime * 1000

\* The run in progress started with no file in the output directory: it is
\* the first run, and the file that may have been there before is not.
CleanRun == run = "first" /\ ForeignFile \notin outputDir

\* C12: in a run that starts with no file in the output directory, every
\* track handed to the orchestrator is counted once, as Successful or as
\* Failed and never as Skipped: after k items successful + failed = k, and
\* at the end of the run successful + failed = N.
C12_CleanRunAccounting ==
  (CleanRun /\ pc \in {"loop", "done"}) =>
    /\ stats.skipped = 0
    /\ stats.successful + stats.failed = itemIndex - 1
    /\ pc = "done" => stats.successful + stats.failed = Len(uniqueNewTracks)

\* C12's case: a clean run of at least two tracks has ended, with a
\* Successful and a Failed item.
C12_Witness ==
  /\ CleanRun
  /\ pc = "done"
  /\ Len(uniqueNewTracks) >= 2
  /\ stats.successful >= 1
  /\ stats.failed >= 1

\* The file downloadSong expects for the item that was processed last.
ExpectedFile == OutputFile([id |-> last.songId], uniqueNewTracks[itemIndex - 1])

\* C13: an item is counted as Successful only if yt-dlp was invoked for it,
\* reported success and the expected file is present afterwards; an item
\* for which yt-dlp was invoked and reported failure, threw, or left no
\* expected file is counted as Failed; yt-dlp is invoked at most once for
\* an item.
C13_PerItemOutcome ==
  ItemDone =>
    /\ last.outcome = "Successful" =>
         /\ last.fetches = 1
         /\ last.report = "success"
         /\ ExpectedFile \in outputDir
    /\ (last.fetches = 1 /\ last.report \in {"failure", "throws"}) =>
         last.outcome = "Failed"
    /\ (last.fetches = 1 /\ ExpectedFile \notin outputDir) =>
         last.outcome = "Failed"
    /\ last.fetches <= 1

\* C13's case: yt-dlp reported success for the item and the expected file
\* is missing afterwards.
C13_Witness ==
  /\ ItemDone
  /\ last.fetches = 1
  /\ last.report = "success"
  /\ ExpectedFile \notin outputDir
  /\ last.outcome = "Failed"

\* A track processed earlier in the run in progress was fetched under the
\* catalog identifier id and its file is in the output directory.
FetchedInRun(id) ==
  /\ id \in fetchedYtIds
  /\ \E k \in 1..(itemIndex - 1) : OutputFileOf[uniqueNewTracks[k], id] \in outputDir

\* C14: in a run that started with no file in the output directory, an item
\* whose match resolves to a catalog identifier under which an earlier
\* track of the run was fetched successfully is counted as Skipped and
\* yt-dlp is not invoked for it.
C14_NoSecondFetch ==
  [][(/\ CleanRun
      /\ pc = "loop"
      /\ itemIndex' = itemIndex + 1
      /\ last'.songId \in RunYtIds
      /\ FetchedInRun(last'.songId)) =>
       /\ last'.outcome = "Skipped"
       /\ last'.fetches = 0]_vars

\* ------------------------------------------------------------------------
\* Specification SpecDirectory: parseSpotifyStreamingHistory over the entries
\* of a directory, one entry of `for await (... of Deno.readDir(...))` at a
\* time. ps.dir is the part of the directory listed so far.
\* ------------------------------------------------------------------------

MaxFiles == 2
MaxFileEvents == 2

StartsWith(str, prefix) ==
  Len(str) >= Len(prefix) /\ SubSeq(str, 1, Len(prefix)) = prefix

HistoryPrefix ==
  <<"S", "t", "r", "e", "a", "m", "i", "n", "g", "_", "H", "i", "s", "t", "o", "r", "y", "_", "A", "u", "d", "i", "o", "_">>
JsonSuffix == <<".", "j", "s", "o", "n">>

\* dirEntry.isFile && name.startsWith("Streaming_History_Audio_") && name.endsWith(".json")
IsHistoryFile(dirEntry) ==
  /\ dirEntry.isFile
  /\ StartsWith(dirEntry.name, HistoryPrefix)
  /\ EndsWith(dirEntry.name, JsonSuffix)

\* readTextFile or JSON.parse throws for this file.
Unparseable == <<[unparseable |-> TRUE]>>

\* A null element of the parsed array: reading its spotify_track_uri throws.
NullElement == [null |-> TRUE]

HdEventA ==
  [ts |-> 1, spotify_track_uri |-> UriA,
   master_metadata_track_name |-> MetaAB.track,
   master_metadata_album_artist_name |-> MetaAB.artist,
   master_metadata_album_album_name |-> MetaAB.album]

HdEventC ==
  [ts |-> 2, spotify_track_uri |-> UriC,
   master_metadata_track_name |-> MetaDB.track,
   master_metadata_album_artist_name |-> MetaDB.artist,
   master_metadata_album_album_name |-> MetaDB.album]

HdElements == {HdEventA, HdEventC, NullElement}

\* What reading and parsing a file gives: an exception, or an array.
HdContents ==
  {Unparseable} \cup UNION {[1..n -> HdElements] : n \in 0..MaxFileEvents}

\* History files of every content, a history file under another name, and
\* a directory that carries a history file's name.
HdEntries ==
  {[name |-> HistoryPrefix \o <<"1">> \o JsonSuffix, isFile |-> TRUE, content |-> c] :
     c \in HdContents}
  \cup {[name |-> <<"x">> \o JsonSuffix, isFile |-> TRUE, content |-> <<HdEventC>>],
        [name |-> HistoryPrefix \o <<"1">>, isFile |-> TRUE, content |-> <<HdEventC>>],
        [name |-> HistoryPrefix \o <<"2">> \o JsonSuffix, isFile |-> FALSE,
         content |-> Unparseable]}

\* `for (const track of tracks)` inside the file's try block: the events are
\* folded into the Map until one throws; what was folded before stays.
RECURSIVE FoldFile(_, _)
FoldFile(trackMap, tracks) ==
  IF tracks = <<>> THEN [trackMap |-> trackMap, threw |-> FALSE]
  ELSE IF Head(tracks) = NullElement THEN [trackMap |-> trackMap, threw |-> TRUE]
  ELSE FoldFile(FoldEvent(trackMap, Head(tracks)), Tail(tracks))

HdInit ==
  /\ fn = Off /\ dd = Off /\ mt = Off /\ RunOff
  /\ ps = [pc |-> "readDir", dir |-> <<>>, trackMap |-> <<>>, filesProcessed |-> 0,
           totalTracksProcessed |-> 0, outputTracks |-> <<>>]

\* One directory entry, lines 165-201.
HdEntry ==
  /\ ps.pc = "readDir"
  /\ Len(ps.dir) < MaxFiles
  /\ \E dirEntry \in HdEntries :
       LET listed == [ps EXCEPT !.dir = Append(@, dirEntry)]
           folded == FoldFile(ps.trackMap, dirEntry.content)
       IN  ps' = IF ~IsHistoryFile(dirEntry) THEN listed
                 ELSE IF dirEntry.content = Unparseable THEN listed
                 ELSE IF folded.threw
                 THEN [listed EXCEPT !.trackMap = folded.trackMap,
                                     !.totalTracksProcessed = @ + Len(dirEntry.content)]
                 ELSE [listed EXCEPT !.trackMap = folded.trackMap,
                                     !.totalTracksProcessed = @ + Len(dirEntry.content),
                                     !.filesProcessed = @ + 1]
  /\ UNCHANGED notPs

\* The directory is exhausted, lines 203-224: no file processed is the
\* error "No Streaming_History_Audio_*.json files found".
HdFinish ==
  /\ ps.pc = "readDir"
  /\ ps' = IF ps.filesProcessed = 0
           THEN [ps EXCEPT !.pc = "NoHistoryFilesFound"]
           ELSE [ps EXCEPT !.pc = "returned",
                           !.outputTracks = BuildOutputTracks(ps.trackMap)]
  /\ UNCHANGED notPs

HdNext == HdEntry \/ HdFinish

SpecDirectory == HdInit /\ [][HdNext]_vars

\* The file of a directory entry fails to parse.
ParseFails(dirEntry) ==
  \/ dirEntry.content = Unparseable
  \/ \E k \in 1..Len(dirEntry.content) : dirEntry.content[k] = NullElement

\* The aggregation of the history files of dir that parse.
RECURSIVE FoldParsedFiles(_, _)
FoldParsedFiles(trackMap, dir) ==
  IF dir = <<>> THEN trackMap
  ELSE IF IsHistoryFile(Head(dir)) /\ ~ParseFails(Head(dir))
  THEN FoldParsedFiles(FoldFile(trackMap, Head(dir).content).trackMap, Tail(dir))
  ELSE FoldParsedFiles(trackMap, Tail(dir))

HasHistoryFile(dir) == \E k \in 1..Len(dir) : IsHistoryFile(dir[k])

\* C11: when the directory holds at least one history file, the parser
\* returns the aggregation of the history files that parse, whichever of
\* them fail to parse; it fails with NoHistoryFilesFound only when the
\* directory holds no history file.
C11_ParseFailuresNotFatal ==
  (ps.pc \in {"returned", "NoHistoryFilesFound"}) =>
    /\ HasHistoryFile(ps.dir) =>
         /\ ps.pc = "returned"
         /\ ps.outputTracks = BuildOutputTracks(FoldParsedFiles(<<>>, ps.dir))
    /\ ps.pc = "NoHistoryFilesFound" => ~HasHistoryFile(ps.dir)

====
